---- MODULE Spec2Model ----
(***************************************************************************)
(* Options-Scanner: a trade-tick pipeline.                                 *)
(*   strategy.py      MomentumScanner   (the Momentum Engine)              *)
(*   polygon_ws.py    PolygonWebSocketClient (the Feed Connector)          *)
(*   redis_pubsub.py  RedisPubSub       (the Distribution Bus)             *)
(*   main.py          TradingBot        (the Orchestrator)                 *)
(* One set of variables holds the state of the four components; each       *)
(* component has its own specification, which leaves the variables of the  *)
(* other components unchanged.                                             *)
(***************************************************************************)
EXTENDS Integers, Sequences, FiniteSets, TLC

VARIABLES
    \* ---- MomentumScanner (strategy.py)
    tick_history,       \* self.tick_history: symbol key -> list of ticks (<<>> = key absent)
    spy_price,          \* self.spy_price (None until update_spy)
    ret,                \* outcome of the last evaluate_tick call
    call,               \* history variable: the arguments and pre-state of that call
    appended,           \* history variable: per key, every tick appended since the list was (re)created
    ncalls,             \* number of evaluate_tick calls made (bounded)
    \* ---- PolygonWebSocketClient (polygon_ws.py)
    reconnect_attempts, \* self.reconnect_attempts
    should_reconnect,   \* self.should_reconnect
    nconn,              \* number of WebSocketApp objects run() has created; self.ws is None iff 0
    wst,                \* where the thread of the current WebSocketApp (self.wst) is
    sent,               \* control frames sent on the current connection
    published,          \* every publish_tick call made, in order
    frame,              \* history variable: the last frame on_message was given
    pub_before,         \* history variable: Len(published) when that frame arrived
    failures,           \* history variable: on_close calls since the last on_open
    opens,              \* number of on_open calls (bounded)
    nframes,            \* number of frames received (bounded)
    \* ---- RedisPubSub.subscribe_to (redis_pubsub.py) and TradingBot (main.py)
    pc_main,            \* where the thread that calls subscribe_to / TradingBot.run is
    sub_idx,            \* TradingBot.run: position in base_prices.keys() of the current symbol
    running,            \* TradingBot.running
    subscribed,         \* channels with an open pubsub subscription
    start_time,         \* subscribe_to: start_time
    sub_timeout,        \* subscribe_to: timeout (None = no timeout)
    inbox,              \* messages pubsub.listen() has yet to yield
    delivered,          \* number of callback(data) calls made
    bus_closed,         \* RedisPubSub.close() has run
    now,                \* time.time(), in seconds
    npub,               \* number of messages published by others (bounded)
    stop_requested,     \* history variable: handle_shutdown has run
    handled,            \* history variable: how lines 103-109 ended for each message, in order
    \* ---- the threads that run handle_tick (main.py), one step per block of lines
    wpc,                \* per thread: where it is inside handle_tick
    wtick,              \* per thread: the tick handle_tick was called with
    \* ---- RedisPubSub.publish_tick / subscribe_to callers (redis_pubsub.py)
    pub_symbol,         \* history variable: the symbol the last publish_tick call was given
    sub_symbol,         \* history variable: the symbol the open subscribe_to call was given
    \* ---- RedisPubSub connection handling (redis_pubsub.py)
    server_up,          \* whether the Redis server answers (the environment)
    client_op,          \* the decorated call in progress or last made
    client_pc,          \* where that call is
    attempt,            \* _connect: the loop variable
    attempts_made,      \* history variable: connection attempts made by that call
    waits,              \* history variable: the time.sleep durations of that call, in order
    body_ran,           \* history variable: the wrapped function was entered by that call
    attempt_ok,         \* history variable: a connection attempt of that call succeeded
    max_retries,        \* self.max_retries
    client_result,      \* what that call returned or raised
    \* ---- the polygon_ws.py process
    api_key,            \* whether POLYGON_API_KEY is set in the environment
    exit_status         \* the status the process ended with (None while it runs)

engineVars == <<tick_history, spy_price, ret, call, appended, ncalls>>

connVars == <<reconnect_attempts, should_reconnect, nconn, wst, sent, published,
              frame, pub_before, failures, opens, nframes>>

busVars == <<pc_main, sub_idx, running, subscribed, start_time, sub_timeout, inbox,
             delivered, bus_closed, now, npub, stop_requested>>

chanVars == <<pub_symbol, sub_symbol>>

clientVars == <<server_up, client_op, client_pc, attempt, attempts_made, waits,
                body_ran, attempt_ok, max_retries, client_result>>

procVars == <<api_key, exit_status>>

handlerVars == <<handled>>

workerVars == <<wpc, wtick>>

\* the variables the engine, the connector's callbacks and subscribe_to leave alone
restVars == <<chanVars, clientVars, procVars, handlerVars, workerVars>>

vars == <<engineVars, connVars, busVars, restVars>>

(***************************************************************************)
(* Values                                                                  *)
(***************************************************************************)
\* Python None for a numeric attribute, and a key a dict does not carry.
None == -1
Absent == -1
NoStr == "absent"

\* A tick is the dict the feed delivers; a key the dict lacks is Absent / NoStr.
Tick(ev, sym, p, t, s) == [ev |-> ev, sym |-> sym, p |-> p, t |-> t, s |-> s]

\* ---- strategy.py, MomentumScanner.__init__
\* 1.5 (percent), held in tenths so that the comparison stays in the integers
MOMENTUM_THRESHOLD_X10 == 15
VOLUME_THRESHOLD == 1000
TARGET_HOUR == 15
TARGET_MINUTE_START == 45
TARGET_MINUTE_END == 59
HISTORY_WINDOW == 5

\* ---- main.py, TradingBot.__init__: self.base_prices (dict.get: 0 = no entry)
base_prices(symbol) ==
    CASE symbol = "SPY"  -> 530
      [] symbol = "AAPL" -> 185
      [] symbol = "MSFT" -> 430
      [] symbol = "NVDA" -> 1100
      [] symbol = "TSLA" -> 185
      [] OTHER -> 0

(***************************************************************************)
(* Sequences                                                               *)
(***************************************************************************)
\* Python seq[-n:] for n > 0
LastN(seq, n) ==
    IF Len(seq) <= n THEN seq ELSE SubSeq(seq, Len(seq) - n + 1, Len(seq))

\* Python seq[:n]
FirstN(seq, n) ==
    IF Len(seq) <= n THEN seq ELSE SubSeq(seq, 1, n)

(***************************************************************************)
(* MomentumScanner                                                         *)
(***************************************************************************)
\* _is_momentum_up: reads the symbol's stored history as it is at the time of
\* the call, which evaluate_tick makes after it has appended the current tick.
is_momentum_up(th, symbol, current_price) ==
    LET history == th[symbol] IN
    IF Len(history) < HISTORY_WINDOW THEN FALSE
    ELSE LET recent == LastN(history, HISTORY_WINDOW) IN
         \A i \in 1..Len(recent) : current_price > recent[i].p

\* _in_final_15_minutes: the millisecond timestamp read as UTC wall clock
utc_hour(timestamp) == (timestamp \div 3600000) % 24
utc_minute(timestamp) == (timestamp \div 60000) % 60

in_final_15_minutes(timestamp) ==
    /\ utc_hour(timestamp) = TARGET_HOUR
    /\ TARGET_MINUTE_START <= utc_minute(timestamp)
    /\ utc_minute(timestamp) <= TARGET_MINUTE_END

\* _calculate_relative_strength, times base_price/100 so that no division is
\* needed:  rel_strength = ((price-base)/base - spy_return) * 100  with
\* spy_return = (spy-base)/base if spy is truthy, else 0.
rel_strength_times_base(price, base_price, spy) ==
    LET stock_num == price - base_price
        spy_num == IF spy # None /\ spy # 0 THEN spy - base_price ELSE 0
    IN  stock_num - spy_num

\* rel_strength < MOMENTUM_THRESHOLD, for base_price > 0 (every entry of
\* base_prices is positive):  (num/base)*100 < 1.5  <=>  num*1000 < 15*base
rel_strength_below_threshold(price, base_price, spy) ==
    rel_strength_times_base(price, base_price, spy) * 1000
        < MOMENTUM_THRESHOLD_X10 * base_price

\* tick.get("s", 0)
size_of(tick) == IF tick.s = Absent THEN 0 ELSE tick.s

\* evaluate_tick lines 54-55: the list after the append, compacted
compact_keep_oldest(history) ==
    IF Len(history) > HISTORY_WINDOW * 2
    THEN FirstN(history, HISTORY_WINDOW)
    ELSE history

compact(history) ==
    IF Len(history) > HISTORY_WINDOW * 2
    THEN LastN(history, HISTORY_WINDOW)
    ELSE history

\* evaluate_tick lines 57-73: the checks, run on the state left by the append
entry_decision_ready_flip(th, spy, tick, base_price) ==
    IF spy = None \/ ~in_final_15_minutes(tick.t) THEN TRUE
    ELSE IF rel_strength_below_threshold(tick.p, base_price, spy) THEN FALSE
    ELSE IF size_of(tick) < VOLUME_THRESHOLD THEN FALSE
    ELSE IF ~is_momentum_up(th, tick.sym, tick.p) THEN FALSE
    ELSE TRUE

entry_decision_gate_flip(th, spy, tick, base_price) ==
    IF spy = None \/ ~in_final_15_minutes(tick.t) THEN FALSE
    ELSE IF rel_strength_below_threshold(tick.p, base_price, spy) THEN FALSE
    ELSE IF size_of(tick) < VOLUME_THRESHOLD THEN TRUE
    ELSE IF ~is_momentum_up(th, tick.sym, tick.p) THEN FALSE
    ELSE TRUE

entry_decision(th, spy, tick, base_price) ==
    IF spy = None \/ ~in_final_15_minutes(tick.t) THEN FALSE
    ELSE IF rel_strength_below_threshold(tick.p, base_price, spy) THEN FALSE
    ELSE IF size_of(tick) < VOLUME_THRESHOLD THEN FALSE
    ELSE IF ~is_momentum_up(th, tick.sym, tick.p) THEN FALSE
    ELSE TRUE

\* evaluate_tick with lines 53-55 moved below the early exit of line 58
evaluate_tick_append_late(th, spy, tick, base_price) ==
    IF tick.sym = NoStr \/ tick.p = Absent \/ tick.t = Absent
    THEN [tick_history |-> th, ret |-> "KeyError"]
    ELSE IF spy = None \/ ~in_final_15_minutes(tick.t)
    THEN [tick_history |-> th, ret |-> "false"]
    ELSE LET th2 == [th EXCEPT ![tick.sym] = compact(Append(th[tick.sym], tick))]
         IN  [tick_history |-> th2,
              ret |-> IF entry_decision(th2, spy, tick, base_price)
                      THEN "true" ELSE "false"]

\* evaluate_tick: the new tick_history and the outcome.  tick["sym"], tick["p"]
\* and tick["t"] are read first: a tick lacking one raises KeyError before
\* anything is stored.
evaluate_tick(th, spy, tick, base_price) ==
    IF tick.sym = NoStr \/ tick.p = Absent \/ tick.t = Absent
    THEN [tick_history |-> th, ret |-> "KeyError"]
    ELSE LET th2 == [th EXCEPT ![tick.sym] = compact(Append(th[tick.sym], tick))]
         IN  [tick_history |-> th2,
              ret |-> IF entry_decision(th2, spy, tick, base_price)
                      THEN "true" ELSE "false"]

(***************************************************************************)
(* Inputs of the engine                                                    *)
(***************************************************************************)
\* 1970-01-04T15:59:59.999Z, the last millisecond of a target window
TIn == 316799999
\* one hour earlier (strategy.py line 117: now - 3600*1000)
TOut == TIn - 3600 * 1000

\* every key a tick's "sym" can carry in the model
Symbols == {"SPY", "spy", "AAPL", "NVDA", "nvda"}

\* the reference prices update_spy is given
SpyPrices == {530, 1130}

\* the ticks evaluate_tick is given directly
EvalTicks ==
    { Tick("T", "NVDA", p, t, s) : p \in {1130, 1140}, t \in {TIn, TOut},
                                   s \in {Absent, 500, 1200} }
    \cup { Tick("T", "NVDA", 1140, Absent, 1200), Tick("T", "AAPL", 190, TIn, 1200) }

\* strategy.py line 87: the history the test harness installs for NVDA
PresetHistory ==
    << Tick(NoStr, NoStr, 1130, Absent, Absent), Tick(NoStr, NoStr, 1132, Absent, Absent),
       Tick(NoStr, NoStr, 1134, Absent, Absent), Tick(NoStr, NoStr, 1136, Absent, Absent),
       Tick(NoStr, NoStr, 1138, Absent, Absent) >>

EmptyHistory == [k \in Symbols |-> <<>>]

NoCall == [tick |-> Tick(NoStr, NoStr, Absent, Absent, Absent), base_price |-> 0,
           spy |-> None, history |-> <<>>]

\* how many evaluate_tick calls a behaviour of Spec makes
MaxCalls == 3
\* how many evaluate_tick calls a behaviour of SpecCompaction makes
MaxAppends == 11

(***************************************************************************)
(* The engine's operations                                                 *)
(***************************************************************************)
EngineInit ==
    /\ tick_history = EmptyHistory
    /\ spy_price = None
    /\ ret = "none"
    /\ call = NoCall
    /\ appended = EmptyHistory
    /\ ncalls = 0

\* update_spy(tick)
UpdateSpy ==
    \E p \in SpyPrices :
        /\ spy_price' = p
        /\ UNCHANGED <<tick_history, ret, call, appended, ncalls>>
        /\ UNCHANGED <<connVars, busVars, restVars>>

\* the state change of one evaluate_tick(tick, base_price) call made on
\* history th with reference price spy
DoEvaluate(th, log, spy, tick, base_price) ==
    LET r == evaluate_tick(th, spy, tick, base_price) IN
    /\ tick_history' = r.tick_history
    /\ ret' = r.ret
    /\ call' = [tick |-> tick, base_price |-> base_price, spy |-> spy,
                history |-> IF tick.sym = NoStr THEN <<>> ELSE th[tick.sym]]
    /\ appended' = IF r.ret = "KeyError" THEN log
                   ELSE [log EXCEPT ![tick.sym] = Append(log[tick.sym], tick)]
    /\ ncalls' = ncalls + 1

\* evaluate_tick(tick, base_price), called with the symbol's base price
EvaluateTick ==
    \E tick \in EvalTicks :
        /\ ncalls < MaxCalls
        /\ DoEvaluate(tick_history, appended, spy_price, tick, base_prices(tick.sym))
        /\ UNCHANGED spy_price
        /\ UNCHANGED <<connVars, busVars, restVars>>

\* strategy.py run_test_case: update_spy, reset the history, install the
\* NVDA history, evaluate_tick
RunTestCase ==
    \E tick \in EvalTicks, spy \in SpyPrices :
        LET th == IF tick.sym = "NVDA"
                  THEN [EmptyHistory EXCEPT !["NVDA"] = PresetHistory]
                  ELSE EmptyHistory
        IN  /\ ncalls < MaxCalls
            /\ spy_price' = spy
            /\ DoEvaluate(th, th, spy, tick, base_prices(tick.sym))
            /\ UNCHANGED <<connVars, busVars, restVars>>

Next == UpdateSpy \/ EvaluateTick \/ RunTestCase

\* ---- the engine as its callers drive it, without the harness's resets
NextEngine == UpdateSpy \/ EvaluateTick


\* ---- long runs of evaluate_tick on few distinct ticks
CompactionTicks ==
    { Tick("T", "NVDA", 1130, TIn, 1200), Tick("T", "NVDA", 1140, TIn, 1200),
      Tick("T", "AAPL", 190, TIn, 1200) }

EvaluateMany ==
    \E tick \in CompactionTicks :
        /\ ncalls < MaxAppends
        /\ DoEvaluate(tick_history, appended, spy_price, tick, base_prices(tick.sym))
        /\ UNCHANGED spy_price
        /\ UNCHANGED <<connVars, busVars, restVars>>

\* the reference tick that arrives before the first evaluated tick
UpdateSpyFirst ==
    /\ ncalls = 0
    /\ spy_price = None
    /\ spy_price' = 530
    /\ UNCHANGED <<tick_history, ret, call, appended, ncalls>>
    /\ UNCHANGED <<connVars, busVars, restVars>>

NextCompaction == UpdateSpyFirst \/ EvaluateMany


(***************************************************************************)
(* Claims about the Momentum Engine                                        *)
(***************************************************************************)
Evaluated == ret \in {"true", "false"}

\* the last N prices of the history recorded before the call are all strictly
\* below the price of the tick of the call
PriorPricesBelow ==
    /\ Len(call.history) >= HISTORY_WINDOW
    /\ \A i \in 1..Len(call.history) :
          i > Len(call.history) - HISTORY_WINDOW => call.history[i].p < call.tick.p

RelStrengthOk == ~rel_strength_below_threshold(call.tick.p, call.base_price, call.spy)

\* C1: evaluate returns true whenever the reference price is defined, the
\* tick is inside the target window, relative strength and size reach their
\* thresholds, and the N most recent prices recorded before the tick are all
\* strictly below the tick's price.
C1_SignalWhenAllChecksPass ==
    ( /\ Evaluated
      /\ call.spy # None
      /\ in_final_15_minutes(call.tick.t)
      /\ RelStrengthOk
      /\ size_of(call.tick) >= VOLUME_THRESHOLD
      /\ PriorPricesBelow )
    => ret = "true"

\* C2: a signal implies every gate passed: evaluate returns true only if the
\* timestamp has UTC hour 15 and minute 45..59, the size (0 when absent) is
\* at least VOLUME_THRESHOLD and relative strength is at least
\* MOMENTUM_THRESHOLD; so a call with size 500, or with a timestamp outside
\* the window, returns false.
C2_SignalImpliesGates ==
    /\ ret = "true" =>
          /\ (call.tick.t \div 3600000) % 24 = 15
          /\ (call.tick.t \div 60000) % 60 \in 45..59
          /\ (IF call.tick.s = Absent THEN 0 ELSE call.tick.s) >= VOLUME_THRESHOLD
          /\ RelStrengthOk
    /\ (Evaluated /\ call.tick.s \in {Absent, 500}) => ret = "false"
    /\ (Evaluated /\ call.tick.t = TOut) => ret = "false"

\* the harness's "Volume too low" case has run: every other gate passes
C2_Witness ==
    /\ ret = "false"
    /\ call.tick = Tick("T", "NVDA", 1140, TIn, 500)
    /\ call.spy = 530
    /\ call.base_price = 1100
    /\ call.history = PresetHistory

\* C3: while no reference tick has been applied (spy_price is None), every
\* evaluate call returns false.
C3_NotReadyRejects ==
    (Evaluated /\ call.spy = None) => ret = "false"

\* evaluate ran before any update_spy, on a tick that passes the window and
\* volume gates, with a recorded history for its symbol
C3_Witness ==
    /\ ret = "false"
    /\ call.spy = None
    /\ spy_price = None
    /\ in_final_15_minutes(call.tick.t)
    /\ size_of(call.tick) >= VOLUME_THRESHOLD
    /\ Len(call.history) >= 1

\* s holds the last Len(s) elements of full, in the same order
IsSuffix(s, full) ==
    /\ Len(s) <= Len(full)
    /\ s = LastN(full, Len(s))

\* C10: every stored history has length <= 2N and holds the most recently
\* appended ticks in insertion order, oldest first; the append that takes
\* the length above 2N leaves exactly the N most recently appended ticks.
C10_HistoryBounded ==
    /\ \A k \in Symbols :
          /\ Len(tick_history[k]) <= 2 * HISTORY_WINDOW
          /\ IsSuffix(tick_history[k], appended[k])
    /\ (Evaluated /\ Len(call.history) = 2 * HISTORY_WINDOW) =>
          /\ Len(tick_history[call.tick.sym]) = HISTORY_WINDOW
          /\ tick_history[call.tick.sym] = LastN(appended[call.tick.sym], HISTORY_WINDOW)
          /\ tick_history[call.tick.sym]
               = LastN(Append(call.history, call.tick), HISTORY_WINDOW)

\* the append that took a history from 2N to 2N+1 ticks has happened
C10_Witness ==
    /\ Evaluated
    /\ Len(call.history) = 2 * HISTORY_WINDOW
    /\ Len(tick_history[call.tick.sym]) = HISTORY_WINDOW
    /\ tick_history[call.tick.sym][1] # tick_history[call.tick.sym][HISTORY_WINDOW]

(***************************************************************************)
(* RedisPubSub: channel derivation                                         *)
(***************************************************************************)
\* str.lower() on the symbols of the model
lower(symbol) ==
    CASE symbol = "SPY"  -> "spy"
      [] symbol = "AAPL" -> "aapl"
      [] symbol = "MSFT" -> "msft"
      [] symbol = "NVDA" -> "nvda"
      [] symbol = "TSLA" -> "tsla"
      [] symbol = "Aapl" -> "aapl"
      [] OTHER -> symbol

\* f"tick:{symbol.lower()}" (lines 71 and 91)
channel_of_as_given(symbol) == <<"tick:", symbol>>

channel_of(symbol) == <<"tick:", lower(symbol)>>

(***************************************************************************)
(* PolygonWebSocketClient                                                  *)
(***************************************************************************)
MAX_RECONNECT_ATTEMPTS == 5
TICKERS == <<"AAPL", "MSFT", "NVDA", "TSLA">>

\* how many times a connection is opened successfully in a behaviour
MaxOpens == 1
\* how many frames a behaviour receives
MaxFrames == 2

\* an element of an array frame that is no JSON object (tick.get raises)
NonObject == Tick("<non-object>", NoStr, Absent, Absent, Absent)

\* what json.loads makes of a frame: not JSON, one object, or an array
Undecodable == [kind |-> "undecodable", elems |-> <<>>]
Object(tick) == [kind |-> "object", elems |-> <<tick>>]
Array(elems) == [kind |-> "array", elems |-> elems]
NoFrame == [kind |-> "none", elems |-> <<>>]

Trade(sym) == Tick("T", sym, 1140, TIn, 1200)
Quote(sym) == Tick("Q", sym, 1140, TIn, Absent)
Status == Tick("status", NoStr, Absent, Absent, Absent)
NoEvent == Tick(NoStr, "NVDA", 1140, TIn, 1200)

Frames ==
    { Undecodable, Object(Trade("NVDA")), Object(Quote("NVDA")), Object(NoEvent),
      Array(<<Status>>),
      Array(<<Trade("AAPL"), Quote("AAPL"), Trade("nvda")>>),
      Array(<<Trade(NoStr), Trade("NVDA")>>),
      Array(<<Quote("AAPL"), NonObject, Trade("NVDA")>>) }

ConnInit ==
    /\ reconnect_attempts = 0
    /\ should_reconnect = TRUE
    /\ nconn = 0
    /\ wst = "none"
    /\ sent = <<>>
    /\ published = <<>>
    /\ frame = NoFrame
    /\ pub_before = 0
    /\ failures = 0
    /\ opens = 0
    /\ nframes = 0

\* redis_pubsub publish_tick(symbol, data) as the connector calls it: one
\* message on the symbol's channel
publish_tick(log, symbol, data) ==
    Append(log, [channel |-> channel_of(symbol), data |-> data])

\* process_tick: the publish log after one element.  A tick whose 'ev' is
\* 'T' but which has no 'sym' raises KeyError, caught inside process_tick.
process_tick_any_event(log, tick) ==
    IF tick.sym = NoStr THEN log
    ELSE publish_tick(log, tick.sym, tick)

process_tick(log, tick) ==
    IF tick.ev = "T"
    THEN IF tick.sym = NoStr THEN log
         ELSE publish_tick(log, tick.sym, tick)
    ELSE log

\* on_message's loop over the elements: tick.get on an element that is no
\* object raises AttributeError, which leaves the loop (caught at line 61)
RECURSIVE process_elems(_, _)
process_elems(log, elems) ==
    IF elems = <<>> THEN log
    ELSE IF Head(elems) = NonObject THEN log
    ELSE process_elems(process_tick(log, Head(elems)), Tail(elems))

\* on_message: the publish log after one frame
on_message(log, f) ==
    IF f.kind = "undecodable" THEN log
    ELSE process_elems(log, f.elems)

\* run(): a new WebSocketApp and its thread
RunEffect ==
    /\ nconn' = nconn + 1
    /\ wst' = "connecting"
    /\ sent' = <<>>

\* module level, lines 22-26: read POLYGON_API_KEY; without it, sys.exit(1)
LoadEnv ==
    \E key \in {"set", "missing"} :
        /\ api_key = "unread"
        /\ api_key' = key
        /\ exit_status' = IF key = "missing" THEN 1 ELSE exit_status
        /\ UNCHANGED <<engineVars, connVars, busVars, chanVars, clientVars, handlerVars, workerVars>>

\* main(): client.run()
MainRun ==
    /\ api_key = "set"
    /\ nconn = 0
    /\ wst = "none"
    /\ RunEffect
    /\ UNCHANGED <<reconnect_attempts, should_reconnect, published, frame,
                   pub_before, failures, opens, nframes>>
    /\ UNCHANGED <<engineVars, busVars, restVars>>

\* on_open: reset the counter, authenticate, subscribe to every ticker
OnOpen ==
    /\ wst = "connecting"
    /\ opens < MaxOpens
    /\ wst' = "open"
    /\ reconnect_attempts' = 0
    /\ sent' = <<"auth">> \o TICKERS
    /\ failures' = 0
    /\ opens' = opens + 1
    /\ UNCHANGED <<should_reconnect, nconn, published, frame, pub_before, nframes>>
    /\ UNCHANGED <<engineVars, busVars, restVars>>

\* the connection fails or is closed by the peer (or misses its heartbeat):
\* run_forever ends and on_close is due
ConnectionLost ==
    /\ wst \in {"connecting", "open"}
    /\ wst' = "closing"
    /\ UNCHANGED <<reconnect_attempts, should_reconnect, nconn, sent, published,
                   frame, pub_before, failures, opens, nframes>>
    /\ UNCHANGED <<engineVars, busVars, restVars>>

\* on_close line 80: whether to reconnect
may_reconnect_off_by_one(flag, attempts) ==
    flag /\ attempts <= MAX_RECONNECT_ATTEMPTS

may_reconnect(flag, attempts) ==
    flag /\ attempts < MAX_RECONNECT_ATTEMPTS

\* on_close up to the sleep: the check, the increment
OnClose ==
    /\ wst = "closing"
    /\ failures' = failures + 1
    /\ IF may_reconnect(should_reconnect, reconnect_attempts)
       THEN /\ reconnect_attempts' = reconnect_attempts + 1
            /\ wst' = "reconnect_wait"
       ELSE /\ wst' = "ended"
            /\ UNCHANGED reconnect_attempts
    /\ UNCHANGED <<should_reconnect, nconn, sent, published, frame, pub_before,
                   opens, nframes>>
    /\ UNCHANGED <<engineVars, busVars, restVars>>

\* on_close after time.sleep(RECONNECT_DELAY): self.run(), whatever
\* should_reconnect has become meanwhile
OnCloseRun ==
    /\ wst = "reconnect_wait"
    /\ RunEffect
    /\ UNCHANGED <<reconnect_attempts, should_reconnect, published, frame,
                   pub_before, failures, opens, nframes>>
    /\ UNCHANGED <<engineVars, busVars, restVars>>

\* handle_signal, run by the main thread at any point of the other threads:
\* clear the flag, close the current WebSocketApp when there is one
HandleSignal ==
    /\ api_key = "set"
    /\ exit_status = None
    /\ should_reconnect' = FALSE
    /\ wst' = IF nconn > 0 /\ wst \in {"connecting", "open"} THEN "closing" ELSE wst
    /\ UNCHANGED <<reconnect_attempts, nconn, sent, published, frame, pub_before,
                   failures, opens, nframes>>
    /\ UNCHANGED <<engineVars, busVars, restVars>>

\* on_message on a frame of the open connection
OnMessage ==
    \E f \in Frames :
        /\ wst = "open"
        /\ nframes < MaxFrames
        /\ published' = on_message(published, f)
        /\ frame' = f
        /\ pub_before' = Len(published)
        /\ nframes' = nframes + 1
        /\ UNCHANGED <<reconnect_attempts, should_reconnect, nconn, wst, sent,
                       failures, opens>>
        /\ UNCHANGED <<engineVars, busVars, restVars>>

\* main() lines 126-127: the thread of the current WebSocketApp has ended,
\* the loop ends and main() returns: the interpreter exits with status 0
MainExit ==
    /\ exit_status = None
    /\ wst = "ended"
    /\ exit_status' = 0
    /\ UNCHANGED api_key
    /\ UNCHANGED <<engineVars, connVars, busVars, chanVars, clientVars, handlerVars, workerVars>>

NextConn ==
    \/ LoadEnv
    \/ MainExit
    \/ MainRun
    \/ OnOpen
    \/ ConnectionLost
    \/ OnClose
    \/ OnCloseRun
    \/ HandleSignal
    \/ OnMessage

(***************************************************************************)
(* RedisPubSub.subscribe_to and TradingBot                                 *)
(***************************************************************************)
\* base_prices.keys(), in the dict's order
Keys == <<"SPY", "AAPL", "MSFT", "NVDA", "TSLA">>

\* str.upper() on the symbols of the model
upper(symbol) ==
    CASE symbol = "nvda" -> "NVDA"
      [] symbol = "spy"  -> "SPY"
      [] symbol = "aapl" -> "AAPL"
      [] OTHER -> symbol

\* the last second of a behaviour of SpecBus
MaxTime == 4
\* how many messages others publish in a behaviour
MaxPublishes == 3

\* the timeouts subscribe_to is given in SpecBus (None = no timeout)
Timeouts == {None, 1, 2}

\* the reply to SUBSCRIBE, which listen() yields first, and a published tick
Confirmation == [type |-> "subscribe", data |-> Tick(NoStr, NoStr, Absent, Absent, Absent)]
Message(tick) == [type |-> "message", data |-> tick]

\* the ticks others publish
BusTicks ==
    { Tick("T", "SPY", 530, TIn, 100), Tick("T", "AAPL", 190, TIn, 1200),
      Tick("T", "NVDA", 1140, TIn, 1200) }

BusInit ==
    /\ pc_main = "init"
    /\ sub_idx = 0
    /\ running = FALSE
    /\ subscribed = {}
    /\ start_time = 0
    /\ sub_timeout = None
    /\ inbox = <<>>
    /\ delivered = 0
    /\ bus_closed = FALSE
    /\ now = 0
    /\ npub = 0
    /\ stop_requested = FALSE

\* subscribe_to lines 91-96: open the subscription, note the time
SubscribeEffect(symbol, timeout) ==
    /\ subscribed' = subscribed \cup {channel_of(symbol)}
    /\ start_time' = now
    /\ sub_timeout' = timeout
    /\ inbox' = <<Confirmation>>

\* subscribe_to lines 98-102: what the loop body does with a message that
\* listen() has yielded at time t
listen_step(msg, start, timeout, t) ==
    IF timeout # None /\ timeout # 0 /\ (t - start) > timeout THEN "break"
    ELSE IF msg.type # "message" THEN "continue"
    ELSE "callback"

\* subscribe_to lines 112-114: pubsub.close()
UnsubscribeEffect ==
    /\ subscribed' = {}
    /\ inbox' = <<>>

\* ---- redis_pubsub.py __main__: one subscribe_to call with a timeout
BusSubscribeTo ==
    \E T \in Timeouts :
        /\ pc_main = "init"
        /\ SubscribeEffect("AAPL", T)
        /\ pc_main' = "listening"
        /\ UNCHANGED <<sub_idx, running, delivered, bus_closed, now, npub, stop_requested>>
        /\ UNCHANGED <<engineVars, connVars, restVars>>

\* listen() yields the next message; sample_callback only prints
BusListen ==
    /\ pc_main = "listening"
    /\ inbox # <<>>
    /\ LET step == listen_step(Head(inbox), start_time, sub_timeout, now) IN
       IF step = "break"
       THEN /\ UnsubscribeEffect
            /\ pc_main' = "returned"
            /\ UNCHANGED delivered
       ELSE /\ inbox' = Tail(inbox)
            /\ delivered' = IF step = "callback" THEN delivered + 1 ELSE delivered
            /\ UNCHANGED <<subscribed, pc_main>>
    /\ UNCHANGED <<sub_idx, running, start_time, sub_timeout, bus_closed, now, npub,
                   stop_requested>>
    /\ UNCHANGED <<engineVars, connVars, restVars>>

\* listen() raises redis.RedisError (line 110): the subscription ends
BusListenError ==
    /\ pc_main = "listening"
    /\ UnsubscribeEffect
    /\ pc_main' = "returned"
    /\ UNCHANGED <<sub_idx, running, start_time, sub_timeout, delivered, bus_closed,
                   now, npub, stop_requested>>
    /\ UNCHANGED <<engineVars, connVars, restVars>>

\* someone publishes a tick: it reaches the subscriptions open on its
\* channel and is lost otherwise
Publish ==
    \E tick \in BusTicks :
        /\ npub < MaxPublishes
        /\ npub' = npub + 1
        /\ inbox' = IF channel_of(tick.sym) \in subscribed
                    THEN Append(inbox, Message(tick)) ELSE inbox
        /\ UNCHANGED <<pc_main, sub_idx, running, subscribed, start_time, sub_timeout,
                       delivered, bus_closed, now, stop_requested>>
        /\ UNCHANGED <<engineVars, connVars, restVars>>

\* a second passes; a message that has arrived is handled before the next
\* second, so time passes only while the caller is blocked in listen() or
\* outside subscribe_to
ClockTick ==
    /\ now < MaxTime
    /\ ~(pc_main = "listening" /\ inbox # <<>>)
    /\ now' = now + 1
    /\ UNCHANGED <<pc_main, sub_idx, running, subscribed, start_time, sub_timeout,
                   inbox, delivered, bus_closed, npub, stop_requested>>
    /\ UNCHANGED <<engineVars, connVars, restVars>>

NextBus == BusSubscribeTo \/ BusListen \/ BusListenError \/ Publish \/ ClockTick

\* ---- publish_tick and subscribe_to called with symbols of any letter case
\* the symbols the two calls are given
ChanSymbols == {"AAPL", "aapl", "Aapl", "NVDA", "nvda"}

ChanInit ==
    /\ pub_symbol = NoStr
    /\ sub_symbol = NoStr

\* subscribe_to(symbol, callback) up to the listen loop
ChanSubscribe ==
    \E symbol \in ChanSymbols :
        /\ pc_main = "init"
        /\ SubscribeEffect(symbol, None)
        /\ pc_main' = "listening"
        /\ sub_symbol' = symbol
        /\ UNCHANGED <<sub_idx, running, delivered, bus_closed, now, npub, stop_requested>>
        /\ UNCHANGED pub_symbol
        /\ UNCHANGED <<engineVars, connVars, clientVars, procVars, handlerVars, workerVars>>

\* publish_tick(symbol, data) by another client of the same server: the
\* message reaches the subscriptions open on the channel it is published on
ChanPublish ==
    \E symbol \in ChanSymbols, tick \in BusTicks :
        LET sentmsg == publish_tick(<<>>, symbol, tick)[1] IN
        /\ npub < MaxPublishes
        /\ npub' = npub + 1
        /\ inbox' = IF sentmsg.channel \in subscribed
                    THEN Append(inbox, Message(sentmsg.data)) ELSE inbox
        /\ pub_symbol' = symbol
        /\ UNCHANGED <<pc_main, sub_idx, running, subscribed, start_time, sub_timeout,
                       delivered, bus_closed, now, stop_requested>>
        /\ UNCHANGED sub_symbol
        /\ UNCHANGED <<engineVars, connVars, clientVars, procVars, handlerVars, workerVars>>

NextChan == ChanSubscribe \/ ChanPublish \/ BusListen \/ BusListenError

(***************************************************************************)
(* RedisPubSub: the connection, _connect and _ensure_connection            *)
(***************************************************************************)
\* __init__: max_retries (default 3)
DEFAULT_MAX_RETRIES == 3
\* the values RedisPubSub is constructed with
MaxRetriesChoices == 1..DEFAULT_MAX_RETRIES

\* a call of the client: __init__, or a decorated method.  dead: the ping of
\* _ensure_connection failed; serializable: json.dumps accepts the data
NoOp == [kind |-> "none", serializable |-> TRUE, dead |-> FALSE]
ClientOp(kind, serializable, dead) ==
    [kind |-> kind, serializable |-> serializable, dead |-> dead]

ClientInit ==
    /\ server_up = TRUE
    /\ client_op = NoOp
    /\ client_pc = "idle"
    /\ attempt = 0
    /\ attempts_made = 0
    /\ waits = <<>>
    /\ body_ran = FALSE
    /\ attempt_ok = FALSE
    /\ max_retries = DEFAULT_MAX_RETRIES
    /\ client_result = "none"

\* _connect line 50: time.sleep(2 ** attempt)
backoff_doubled(a) == 2 * a

backoff(a) == 2 ^ a

\* publish_tick lines 72-81, the wrapped function: what it returns or raises.
\* json.dumps runs first; its TypeError matches neither redis.RedisError nor
\* anything else: evaluating the second except clause, json.JSONEncodeError,
\* raises AttributeError (the json module has no such name).  A transport
\* failure is a redis.RedisError.
publish_body(serializable, up) ==
    IF ~serializable THEN "AttributeError"
    ELSE IF ~up THEN "false"
    ELSE "true"

\* the Redis server stops or starts answering
ServerChange ==
    /\ server_up' = ~server_up
    /\ UNCHANGED <<client_op, client_pc, attempt, attempts_made, waits, body_ran,
                   attempt_ok, max_retries, client_result>>
    /\ UNCHANGED <<engineVars, connVars, busVars, chanVars, procVars, handlerVars, workerVars>>

\* the start of a call: no attempt made, nothing slept
StartCall(op) ==
    /\ client_op' = op
    /\ attempt' = 0
    /\ attempts_made' = 0
    /\ waits' = <<>>
    /\ body_ran' = FALSE
    /\ attempt_ok' = FALSE
    /\ client_result' = "none"

\* RedisPubSub(max_retries=m): __init__ up to its _connect() call
ClientConstruct ==
    \E m \in MaxRetriesChoices :
        /\ client_op.kind = "none"
        /\ max_retries' = m
        /\ StartCall(ClientOp("init", TRUE, FALSE))
        /\ client_pc' = "connect"
        /\ UNCHANGED server_up
        /\ UNCHANGED <<engineVars, connVars, busVars, chanVars, procVars, handlerVars, workerVars>>

\* a decorated method is called on the constructed object: the wrapper pings
\* (line 58); a failed ping leads to _connect (line 61), else to the function
ClientCall ==
    \E kind \in {"publish", "subscribe"}, serializable \in BOOLEAN :
        /\ client_op.kind # "none"
        /\ client_pc = "done"
        /\ ~(client_op.kind = "init" /\ client_result = "ConnectionError")
        /\ kind = "subscribe" => serializable
        /\ StartCall(ClientOp(kind, serializable, ~server_up))
        /\ client_pc' = IF server_up THEN "body" ELSE "connect"
        /\ UNCHANGED <<server_up, max_retries>>
        /\ UNCHANGED <<engineVars, connVars, busVars, chanVars, procVars, handlerVars, workerVars>>

\* _connect, one turn of the loop (lines 32-49): a new client and its ping
ConnectAttempt ==
    /\ client_pc = "connect"
    /\ attempt < max_retries
    /\ attempts_made' = attempts_made + 1
    /\ IF server_up
       THEN /\ attempt_ok' = TRUE
            /\ IF client_op.kind = "init"
               THEN client_pc' = "done" /\ client_result' = "returned"
               ELSE client_pc' = "body" /\ UNCHANGED client_result
       ELSE /\ UNCHANGED attempt_ok
            /\ IF attempt = max_retries - 1
               THEN client_pc' = "done" /\ client_result' = "ConnectionError"
               ELSE client_pc' = "sleep" /\ UNCHANGED client_result
    /\ UNCHANGED <<server_up, client_op, attempt, waits, body_ran, max_retries>>
    /\ UNCHANGED <<engineVars, connVars, busVars, chanVars, procVars, handlerVars, workerVars>>

\* _connect line 50: the sleep, then the next turn of the loop
ConnectSleep ==
    /\ client_pc = "sleep"
    /\ waits' = Append(waits, backoff(attempt))
    /\ attempt' = attempt + 1
    /\ client_pc' = "connect"
    /\ UNCHANGED <<server_up, client_op, attempts_made, body_ran, attempt_ok,
                   max_retries, client_result>>
    /\ UNCHANGED <<engineVars, connVars, busVars, chanVars, procVars, handlerVars, workerVars>>

\* wrapper line 62: the wrapped function runs.  subscribe_to catches every
\* redis.RedisError itself and returns None.
ClientBody ==
    /\ client_pc = "body"
    /\ body_ran' = TRUE
    /\ client_result' = IF client_op.kind = "publish"
                        THEN publish_body(client_op.serializable, server_up)
                        ELSE "returned"
    /\ client_pc' = "done"
    /\ UNCHANGED <<server_up, client_op, attempt, attempts_made, waits, attempt_ok,
                   max_retries>>
    /\ UNCHANGED <<engineVars, connVars, busVars, chanVars, procVars, handlerVars, workerVars>>

NextClient ==
    \/ ServerChange
    \/ ClientConstruct
    \/ ClientCall
    \/ ConnectAttempt
    \/ ConnectSleep
    \/ ClientBody

(***************************************************************************)
(* The polygon_ws.py process                                               *)
(***************************************************************************)
ProcInit ==
    /\ api_key = "unread"
    /\ exit_status = None

\* ---- main.py TradingBot
\* what json.loads makes of a message's data when it is no tick object:
\* nothing (the data is no JSON), or a JSON number
BadJson == Tick("<undecodable>", NoStr, Absent, Absent, Absent)
NonDict == Tick("<number>", NoStr, Absent, Absent, Absent)
\* a "sym" that is a JSON number instead of a string
NonString == "<number>"

HandlerInit == handled = <<>>

\* handle_tick lines 50-54, outside its try: `field in tick` raises
\* TypeError on a number, tick["sym"].upper() raises AttributeError on one
handle_tick_raises(tick) ==
    \/ tick = NonDict
    \/ tick.sym = NonString /\ tick.p # Absent

\* subscribe_to lines 103-109: how the try block ends for a message's data
callback_outcome(data) ==
    IF data = BadJson THEN "decode_error"
    ELSE IF handle_tick_raises(data) THEN "callback_error"
    ELSE "returned"

\* subscribe_to lines 106-109: both handlers log, and the loop goes on
loop_after_uncaught(outcome) ==
    IF outcome = "callback_error" THEN "raise" ELSE "continue"

loop_after(outcome) == "continue"

\* handle_tick without the return of line 59
HandleTick_no_return(tick) ==
    IF handle_tick_raises(tick) \/ tick.sym = NoStr \/ tick.p = Absent
    THEN UNCHANGED engineVars
    ELSE IF base_prices(upper(tick.sym)) # 0
    THEN /\ DoEvaluate(tick_history, appended, spy_price, tick,
                       base_prices(upper(tick.sym)))
         /\ spy_price' = IF upper(tick.sym) = "SPY" THEN tick.p ELSE spy_price
    ELSE UNCHANGED engineVars

\* handle_tick(tick): validate, route to update_spy or evaluate_tick
HandleTick(tick) ==
    IF handle_tick_raises(tick) \/ tick.sym = NoStr \/ tick.p = Absent
    THEN UNCHANGED engineVars
    ELSE IF upper(tick.sym) = "SPY"
    THEN /\ spy_price' = tick.p
         /\ UNCHANGED <<tick_history, ret, call, appended, ncalls>>
    ELSE IF base_prices(upper(tick.sym)) # 0
    THEN /\ DoEvaluate(tick_history, appended, spy_price, tick,
                       base_prices(upper(tick.sym)))
         /\ UNCHANGED spy_price
    ELSE UNCHANGED engineVars

\* run() up to its first blocking point: running = True, then the first
\* subscribe_to call of the loop, made on the main thread
OrchRun ==
    /\ pc_main = "init"
    /\ running' = TRUE
    /\ sub_idx' = 1
    /\ SubscribeEffect(Keys[1], None)
    /\ pc_main' = "listening"
    /\ UNCHANGED <<delivered, bus_closed, now, npub, stop_requested>>
    /\ UNCHANGED <<engineVars, connVars, restVars>>

\* inside subscribe_to: listen() yields the next message, handle_tick runs on it
OrchListen ==
    /\ pc_main = "listening"
    /\ inbox # <<>>
    /\ LET step == listen_step(Head(inbox), start_time, sub_timeout, now)
           data == Head(inbox).data
           outcome == callback_outcome(data)
       IN
       /\ IF step = "callback"
          THEN /\ handled' = Append(handled, outcome)
               /\ IF outcome = "decode_error"
                  THEN UNCHANGED delivered /\ UNCHANGED engineVars
                  ELSE delivered' = delivered + 1 /\ HandleTick(data)
          ELSE /\ UNCHANGED <<handled, delivered>>
               /\ UNCHANGED engineVars
       /\ IF step = "break" \/ (step = "callback" /\ loop_after(outcome) # "continue")
          THEN /\ UnsubscribeEffect
               /\ pc_main' = "sleep"
          ELSE /\ inbox' = Tail(inbox)
               /\ UNCHANGED <<subscribed, pc_main>>
    /\ UNCHANGED <<sub_idx, running, start_time, sub_timeout, bus_closed, now, npub,
                   stop_requested>>
    /\ UNCHANGED <<connVars, chanVars, clientVars, procVars, workerVars>>

\* listen() raises redis.RedisError: subscribe_to logs it, closes the
\* subscription and returns to run()
OrchListenError ==
    /\ pc_main = "listening"
    /\ UnsubscribeEffect
    /\ pc_main' = "sleep"
    /\ UNCHANGED <<sub_idx, running, start_time, sub_timeout, delivered, bus_closed,
                   now, npub, stop_requested>>
    /\ UNCHANGED <<engineVars, connVars, restVars>>

\* run() after a subscribe_to call has returned: sleep(0.1), then the next
\* symbol's subscribe_to, or the while loop after the last symbol
OrchNextSubscribe ==
    /\ pc_main = "sleep"
    /\ IF sub_idx < Len(Keys)
       THEN /\ sub_idx' = sub_idx + 1
            /\ SubscribeEffect(Keys[sub_idx + 1], None)
            /\ pc_main' = "listening"
       ELSE /\ pc_main' = "loop"
            /\ UNCHANGED <<sub_idx, subscribed, start_time, sub_timeout, inbox>>
    /\ UNCHANGED <<running, delivered, bus_closed, now, npub, stop_requested>>
    /\ UNCHANGED <<engineVars, connVars, restVars>>

\* run(): the while loop sees running = False; cleanup() closes the bus
OrchCleanup ==
    /\ pc_main = "loop"
    /\ ~running
    /\ bus_closed' = TRUE
    /\ pc_main' = "stopped"
    /\ UNCHANGED <<sub_idx, running, subscribed, start_time, sub_timeout, inbox,
                   delivered, now, npub, stop_requested>>
    /\ UNCHANGED <<engineVars, connVars, restVars>>

\* handle_shutdown, run by the main thread between two of its instructions
\* or while it is blocked: running = False
HandleShutdown ==
    /\ ~stop_requested
    /\ running' = FALSE
    /\ stop_requested' = TRUE
    /\ UNCHANGED <<pc_main, sub_idx, subscribed, start_time, sub_timeout, inbox,
                   delivered, bus_closed, now, npub>>
    /\ UNCHANGED <<engineVars, connVars, restVars>>

NextOrch ==
    \/ OrchRun
    \/ OrchListen
    \/ OrchListenError
    \/ OrchNextSubscribe
    \/ OrchCleanup
    \/ HandleShutdown
    \/ Publish

\* ---- the orchestrator fed with every kind of message
\* what a message published on a channel can carry
HandlePayloads ==
    { BadJson, NonDict,
      Tick("T", NonString, 5, TIn, 100),
      Tick("T", NoStr, 1140, TIn, 1200),
      Tick("T", "SPY", 530, TIn, 100),
      Tick("T", "spy", 1130, TIn, 100),
      Tick("T", "SPY", Absent, TIn, 100),
      Tick("T", "NVDA", 1140, TIn, 1200),
      Tick("T", "nvda", 1141, TIn, 1200),
      Tick("T", "NVDA", 1142, Absent, 1200),
      Tick("T", "NVDA", Absent, TIn, 1200),
      Tick("T", "XYZ", 10, TIn, 100) }

\* a tick whose "sym" is a string is published on the channel of that
\* symbol (polygon_ws.py line 68); anything else can arrive on any channel
channels_of_payload(data) ==
    IF data.sym \in {NoStr, NonString}
    THEN { channel_of(Keys[i]) : i \in 1..Len(Keys) }
    ELSE { channel_of(data.sym) }

\* someone publishes: the message reaches the open subscription
PublishAny ==
    \E data \in HandlePayloads :
        /\ npub < MaxPublishes
        /\ subscribed \cap channels_of_payload(data) # {}
        /\ npub' = npub + 1
        /\ inbox' = Append(inbox, Message(data))
        /\ UNCHANGED <<pc_main, sub_idx, running, subscribed, start_time, sub_timeout,
                       delivered, bus_closed, now, stop_requested>>
        /\ UNCHANGED <<engineVars, connVars, restVars>>

NextHandle ==
    \/ OrchRun
    \/ OrchListen
    \/ OrchListenError
    \/ OrchNextSubscribe
    \/ PublishAny

\* ---- handle_tick, step by step, on each thread that runs it
\* run() calls subscribe_to on its own thread (lines 75-80) and starts no
\* other: every callback runs on the main thread
Workers_one_per_subscription == {"main", "worker-2"}

Workers == {"main"}

\* how many handle_tick calls a behaviour of SpecWorkers makes
MaxHandled == 3

\* the ticks handle_tick is called with
WorkerTicks ==
    { Tick("T", "SPY", 530, TIn, 100), Tick("T", "SPY", 1130, TIn, 100),
      Tick("T", "NVDA", 1140, TIn, 1200), Tick("T", "nvda", 1141, TIn, 1200),
      Tick("T", "AAPL", 190, TIn, 1200), Tick("T", "NVDA", 1142, Absent, 1200),
      Tick("T", "NVDA", Absent, TIn, 1200) }

NoTick == Tick(NoStr, NoStr, Absent, Absent, Absent)

WorkerInit ==
    /\ wpc = [w \in Workers |-> "idle"]
    /\ wtick = [w \in Workers |-> NoTick]

\* handle_tick is called on thread w: validation and routing (main.py lines
\* 50-61); for an evaluated tick, evaluate_tick up to the append (strategy.py
\* lines 47-53)
WorkerBegin(w) ==
    \E tick \in WorkerTicks :
        LET symbol == upper(tick.sym) IN
        /\ wpc[w] = "idle"
        /\ delivered < MaxHandled
        /\ delivered' = delivered + 1
        /\ wtick' = [wtick EXCEPT ![w] = tick]
        /\ IF tick.sym = NoStr \/ tick.p = Absent
           THEN UNCHANGED <<wpc, engineVars>>
           ELSE IF symbol = "SPY"
           THEN /\ wpc' = [wpc EXCEPT ![w] = "in_update_spy"]
                /\ UNCHANGED engineVars
           ELSE IF base_prices(symbol) = 0
           THEN UNCHANGED <<wpc, engineVars>>
           ELSE IF tick.t = Absent
           THEN /\ ret' = "KeyError"
                /\ UNCHANGED <<wpc, tick_history, spy_price, call, appended, ncalls>>
           ELSE /\ wpc' = [wpc EXCEPT ![w] = "in_evaluate"]
                /\ tick_history' = [tick_history EXCEPT
                                       ![tick.sym] = Append(@, tick)]
                /\ appended' = [appended EXCEPT ![tick.sym] = Append(@, tick)]
                /\ UNCHANGED <<spy_price, ret, call, ncalls>>
        /\ UNCHANGED <<pc_main, sub_idx, running, subscribed, start_time, sub_timeout,
                       inbox, bus_closed, now, npub, stop_requested>>
        /\ UNCHANGED <<connVars, chanVars, clientVars, procVars, handlerVars>>

\* thread w goes on: update_spy's assignment (strategy.py line 19), or the
\* rest of evaluate_tick: compaction and the checks (lines 54-73)
WorkerEnd(w) ==
    LET tick == wtick[w]
        k == tick.sym
    IN
    /\ wpc[w] # "idle"
    /\ wpc' = [wpc EXCEPT ![w] = "idle"]
    /\ IF wpc[w] = "in_update_spy"
       THEN /\ spy_price' = tick.p
            /\ UNCHANGED <<tick_history, ret, call, appended, ncalls>>
       ELSE LET th2 == [tick_history EXCEPT ![k] = compact(@)]
                base_price == base_prices(upper(k))
            IN  /\ tick_history' = th2
                /\ ret' = IF entry_decision(th2, spy_price, tick, base_price)
                          THEN "true" ELSE "false"
                /\ call' = [tick |-> tick, base_price |-> base_price, spy |-> spy_price,
                            history |-> SubSeq(tick_history[k], 1,
                                               Len(tick_history[k]) - 1)]
                /\ ncalls' = ncalls + 1
                /\ UNCHANGED <<spy_price, appended>>
    /\ UNCHANGED wtick
    /\ UNCHANGED <<connVars, busVars, chanVars, clientVars, procVars, handlerVars>>

\* handle_shutdown interrupting the main thread between two of those steps
WorkerSignal ==
    /\ ~stop_requested
    /\ running' = FALSE
    /\ stop_requested' = TRUE
    /\ UNCHANGED <<pc_main, sub_idx, subscribed, start_time, sub_timeout, inbox,
                   delivered, bus_closed, now, npub>>
    /\ UNCHANGED <<engineVars, connVars, restVars>>

NextWorkers ==
    \/ \E w \in Workers : WorkerBegin(w)
    \/ \E w \in Workers : WorkerEnd(w)
    \/ WorkerSignal

\* the steps the main thread takes by itself once they are possible; a
\* RedisError, a published message and a signal come from outside
OrchFairness ==
    /\ WF_vars(OrchRun)
    /\ WF_vars(OrchListen)
    /\ WF_vars(OrchNextSubscribe)
    /\ WF_vars(OrchCleanup)

(***************************************************************************)
(* Specifications                                                          *)
(***************************************************************************)
Init ==
    /\ EngineInit
    /\ ConnInit
    /\ BusInit
    /\ ChanInit
    /\ ClientInit
    /\ ProcInit
    /\ HandlerInit
    /\ WorkerInit

\* the engine, driven directly and by its test harness
Spec == Init /\ [][Next]_vars

\* the engine driven by update_spy and evaluate_tick calls only
SpecEngine == Init /\ [][NextEngine]_vars

\* the engine on long runs of few distinct ticks
SpecCompaction == Init /\ [][NextCompaction]_vars

\* the feed connector: its threads, the signal handler and the frames
SpecConn == Init /\ [][NextConn]_vars

\* one subscribe_to call with a timeout, against the clock
SpecBus == Init /\ [][NextBus]_vars

\* publish_tick and subscribe_to on symbols of any letter case
SpecChan == Init /\ [][NextChan]_vars

\* the bus client: its constructor and its decorated calls, against a
\* server that comes and goes
SpecClient == Init /\ [][NextClient]_vars

\* the orchestrator's main thread fed with every kind of message
SpecHandle == Init /\ [][NextHandle]_vars

\* the threads that run handle_tick, with evaluate_tick and update_spy in steps
SpecWorkers == Init /\ [][NextWorkers]_vars

\* the orchestrator's main thread, with the steps it takes by itself fair
FairOrch == Init /\ [][NextOrch]_vars /\ OrchFairness

(***************************************************************************)
(* Claims about the Feed Connector                                         *)
(***************************************************************************)
\* on_close runs to its branch in this step
OnCloseStep == wst = "closing" /\ wst' # "closing"

\* C4: with no stop signal, after MAX_RECONNECT_ATTEMPTS consecutive
\* failures (on_close calls with no on_open in between) the next close starts
\* no new connection, no connection is started in any later state, and the
\* reconnect-attempt counter never exceeds the cap.
C4_PermanentlyClosed ==
    /\ [](reconnect_attempts <= MAX_RECONNECT_ATTEMPTS)
    /\ [][ (OnCloseStep /\ should_reconnect /\ failures >= MAX_RECONNECT_ATTEMPTS)
             => (wst' = "ended" /\ nconn' = nconn) ]_vars
    /\ [][ wst = "ended" => (wst' = "ended" /\ nconn' = nconn) ]_vars

\* the close after five consecutive failures has happened, with no stop signal
C4_Witness ==
    /\ should_reconnect
    /\ wst = "ended"
    /\ failures = MAX_RECONNECT_ATTEMPTS + 1
    /\ reconnect_attempts = MAX_RECONNECT_ATTEMPTS
    /\ nconn = MAX_RECONNECT_ATTEMPTS + 1

\* C5: once handle_signal has run in a started connector, no new connection
\* is opened, in every interleaving of the handler with the callbacks.
C5_NoConnectionAfterStop ==
    [][ (~should_reconnect /\ nconn > 0) => nconn' = nconn ]_vars

\* the T elements of a frame
TradeCount(f) == Cardinality({ j \in 1..Len(f.elems) : f.elems[j].ev = "T" })

\* C9: for every frame, single object or array, only elements whose event
\* kind is "T" are published; an element of another kind, or of none, never
\* causes a publish.
C9_OnlyTradesPublished ==
    /\ \A i \in 1..Len(published) : published[i].data.ev = "T"
    /\ Len(published) >= pub_before
    /\ Len(published) - pub_before <= TradeCount(frame)
    /\ \A i \in (pub_before + 1)..Len(published) :
          \E j \in 1..Len(frame.elems) :
              frame.elems[j].ev = "T" /\ frame.elems[j] = published[i].data

\* an array frame mixing trades with a quote has been handled: two publishes
C9_Witness ==
    /\ frame = Array(<<Trade("AAPL"), Quote("AAPL"), Trade("nvda")>>)
    /\ Len(published) - pub_before = 2
    /\ published[Len(published)].channel = <<"tick:", "nvda">>

(***************************************************************************)
(* Claims about the Distribution Bus and the Orchestrator                  *)
(***************************************************************************)
\* C6: a subscribe call given timeout=T has returned no later than T seconds
\* after the subscribe, also when no message is ever published.
C6_TimeoutBound ==
    (pc_main = "listening" /\ sub_timeout # None) => now - start_time <= sub_timeout

AllSubscribed == \A i \in 1..Len(Keys) : channel_of(Keys[i]) \in subscribed

\* C7: after the orchestrator starts and before any stop, it eventually holds
\* a subscription on the channel of every symbol of its base-price table, all
\* active at the same time.
C7_AllSubscribed == <>(AllSubscribed \/ stop_requested)

\* C8: whenever the stop signal is delivered to the running orchestrator,
\* run eventually reaches cleanup, which closes the bus connection.
C8_StopReachesCleanup ==
    (stop_requested /\ pc_main # "init" /\ ~running) ~> bus_closed

\* symbols that differ at most in letter case
CaseClasses == { {"AAPL", "aapl", "Aapl"}, {"NVDA", "nvda"} }
SameLetters(a, b) == \E c \in CaseClasses : a \in c /\ b \in c

\* C11: channel derivation is case-insensitive: two symbols that differ only
\* in letter case derive the same channel, so a tick published under one is
\* delivered to an open subscription made under the other.
C11_CaseInsensitiveChannel ==
    [][ ( /\ npub' = npub + 1
          /\ pc_main = "listening"
          /\ SameLetters(pub_symbol', sub_symbol) )
        => ( /\ Len(inbox') = Len(inbox) + 1
             /\ inbox'[Len(inbox')].type = "message"
             /\ SubSeq(inbox', 1, Len(inbox)) = inbox ) ]_vars

\* a tick published under "aapl" has been handed to the callback of the
\* subscription made under "AAPL"
C11_Witness ==
    /\ pub_symbol = "aapl"
    /\ sub_symbol = "AAPL"
    /\ pc_main = "listening"
    /\ npub = 1
    /\ delivered = 1

(***************************************************************************)
(* Claims about the bus client                                             *)
(***************************************************************************)
\* C12: publish never raises to its caller: a serialization failure or a
\* transport failure, a dead connection that cannot be re-established
\* included, yields false, a successful publish yields true, and a failed
\* publish is not retried.
C12_PublishNeverRaises ==
    (client_op.kind = "publish" /\ client_pc = "done") =>
        /\ client_result \in {"true", "false"}
        /\ ~client_op.serializable => client_result = "false"
        /\ (client_op.dead /\ ~attempt_ok) => client_result = "false"

\* C20: before each publish or subscribe the bus checks its connection; when
\* it is dead the bus makes at most max_retries connection attempts, waits
\* 2^k seconds after the k-th failed attempt (k from 0) and does not wait
\* after the last one, runs the operation only after an attempt succeeded,
\* and after max_retries failed attempts makes no further attempt and does
\* not run the operation.
C20_BoundedReconnect ==
    client_op.kind \in {"publish", "subscribe"} =>
        /\ attempts_made <= max_retries
        /\ ~client_op.dead => attempts_made = 0
        /\ Len(waits) <= max_retries - 1
        /\ \A k \in 1..Len(waits) : waits[k] = 2 ^ (k - 1)
        /\ client_pc = "connect" => Len(waits) = attempts_made
        /\ client_pc = "sleep" => Len(waits) = attempts_made - 1
        /\ body_ran => (~client_op.dead \/ attempt_ok)
        /\ (client_op.dead /\ client_pc \in {"body", "done"}) =>
              \/ attempt_ok /\ Len(waits) = attempts_made - 1
              \/ /\ ~attempt_ok
                 /\ attempts_made = max_retries
                 /\ Len(waits) = max_retries - 1
                 /\ ~body_ran
                 /\ client_pc = "done"
                 /\ client_result = "ConnectionError"

\* a publish found the connection dead, failed twice, slept 1 s and 2 s,
\* connected at the third attempt and then ran
C20_Witness ==
    /\ client_op.kind = "publish"
    /\ client_op.dead
    /\ max_retries = 3
    /\ waits = <<1, 2>>
    /\ attempts_made = 3
    /\ attempt_ok
    /\ body_ran
    /\ client_result = "true"

(***************************************************************************)
(* Claims about the Orchestrator's tick handling                           *)
(***************************************************************************)
\* lines 103-109 of subscribe_to have run on a message in this step
MessageStep == handled' # handled

\* the messages whose data decoded, each of which reached handle_tick
Decoded == { i \in 1..Len(handled) : handled[i] # "decode_error" }

\* C13: if handling one received tick raises anywhere in validation, routing
\* or the engine, the exception is caught per tick: the subscription stays
\* active and the next message on the channel is still dispatched to the
\* handler.
C13_BadTickKeepsStream ==
    /\ [][ MessageStep =>
             /\ pc_main' = "listening"
             /\ subscribed' = subscribed
             /\ inbox' = Tail(inbox) ]_vars
    /\ [](delivered = Cardinality(Decoded))

\* within one subscription, a message on which handle_tick raised was
\* followed by one that handle_tick took, after which the loop still runs
C13_Witness ==
    /\ pc_main = "listening"
    /\ sub_idx = 1
    /\ handled = <<"callback_error", "returned">>
    /\ delivered = 2
    /\ spy_price = 530

\* the canonical form of the symbols of the model
CanonicalSymbols == {"SPY", "AAPL", "NVDA"}

\* C17: SymbolHistory is keyed by canonical (upper-case) symbol: ticks whose
\* symbols differ only in letter case are recorded in one and the same
\* history, so the engine never holds a history under another spelling.
C17_CanonicalKey ==
    \A k \in Symbols \ CanonicalSymbols : tick_history[k] = <<>>

\* the reference symbol and the base-price table, in any letter case
RefSymbols == {"SPY", "spy"}
TableBase(sym) ==
    CASE sym \in {"NVDA", "nvda"} -> 1100
      [] sym \in {"AAPL", "aapl"} -> 185
      [] OTHER -> 0

\* handle_tick has been called in this step, on the data of the first message
DispatchStep == handled' # handled /\ handled'[Len(handled')] # "decode_error"

\* C18: for every tick the Orchestrator handles: a tick of the reference
\* symbol only overwrites ReferencePrice with its price, is never evaluated
\* and changes no SymbolHistory; a tick of another symbol that has a base
\* price is evaluated with that symbol's base price and never changes
\* ReferencePrice; a tick lacking symbol or price, or of a symbol with no
\* base price, changes no engine state.
C18_Routing ==
    [][ DispatchStep =>
          LET tick == Head(inbox).data IN
          /\ (tick.sym \in RefSymbols /\ tick.p # Absent) =>
                /\ spy_price' = tick.p
                /\ UNCHANGED <<tick_history, ret, call, appended, ncalls>>
          /\ (TableBase(tick.sym) # 0 /\ tick.p # Absent) =>
                /\ spy_price' = spy_price
                /\ ncalls' = ncalls + 1
                /\ call'.tick = tick
                /\ call'.base_price = TableBase(tick.sym)
                /\ \A k \in RefSymbols : tick_history'[k] = tick_history[k]
          /\ ( \/ tick.sym = NoStr
               \/ tick.p = Absent
               \/ tick.sym \notin RefSymbols /\ TableBase(tick.sym) = 0 ) =>
                UNCHANGED engineVars ]_vars

\* a reference tick set the price, a tick without price and one of an
\* unlisted symbol changed nothing, and an NVDA tick was evaluated at 1100
C18_Witness ==
    /\ spy_price = 1130
    /\ tick_history["SPY"] = <<>>
    /\ tick_history["spy"] = <<>>
    /\ call.tick = Tick("T", "NVDA", 1140, TIn, 1200)
    /\ call.base_price = 1100
    /\ call.spy = 1130
    /\ ncalls = 1
    /\ Len(handled) = 2

(***************************************************************************)
(* Claims about the engine's frame                                         *)
(***************************************************************************)
\* an evaluate_tick call on a tick that carries sym, p and t returns in this step
EvaluateStep == ncalls' = ncalls + 1 /\ ret' \in {"true", "false"}

\* C16: every evaluate call on a tick that carries symbol, price and
\* timestamp appends that tick exactly once, as the newest entry, to its
\* symbol's history, whether the call returns true or false and whichever
\* check rejects it; the call leaves every other symbol's history and
\* ReferencePrice unchanged.
C16_AppendsThenChecks ==
    [][ EvaluateStep =>
          LET tick == call'.tick
              k == tick.sym
              longer == Append(tick_history[k], tick)
          IN  /\ \/ tick_history'[k] = longer
                 \/ /\ Len(longer) > 2 * HISTORY_WINDOW
                    /\ tick_history'[k] = LastN(longer, HISTORY_WINDOW)
              /\ appended'[k] = Append(appended[k], tick)
              /\ \A j \in Symbols \ {k} : tick_history'[j] = tick_history[j]
              /\ spy_price' = spy_price ]_vars

\* three rejected ticks, the last rejected by the volume check and the one
\* before it by the window check, are all in the history of their symbol
C16_Witness ==
    /\ ret = "false"
    /\ call.tick = Tick("T", "NVDA", 1140, TIn, 500)
    /\ call.spy = 530
    /\ tick_history["NVDA"] =
          << Tick("T", "NVDA", 1130, TIn, 1200), Tick("T", "NVDA", 1140, TOut, 1200),
             Tick("T", "NVDA", 1140, TIn, 500) >>
    /\ tick_history["AAPL"] = <<>>

(***************************************************************************)
(* Claims about the connector's frames and its process                     *)
(***************************************************************************)
\* the elements of a frame that are trade ticks with a symbol
WellFormedTrade(e) == e.ev = "T" /\ e.sym # NoStr
GoodTrades(f) == SelectSeq(f.elems, WellFormedTrade)

\* on_message has handled a frame in this step
FrameStep == nframes' = nframes + 1

\* C19: a malformed unit is dropped alone: an undecodable frame, or a
\* malformed element of an array frame, leaves the connection state and the
\* reconnect-attempt counter unchanged, the other elements of the same array
\* frame are still published in their order, and every later frame is still
\* processed.
C19_MalformedUnitDroppedAlone ==
    /\ [][ FrameStep =>
             /\ wst' = wst
             /\ reconnect_attempts' = reconnect_attempts
             /\ nconn' = nconn
             /\ should_reconnect' = should_reconnect ]_vars
    /\ [](/\ Len(published) = pub_before + Len(GoodTrades(frame))
          /\ \A i \in 1..Len(GoodTrades(frame)) :
                published[pub_before + i].data = GoodTrades(frame)[i])

\* the process ended although no stop was requested: its last connection
\* thread ended after on_close declined to reconnect
Exhausted == api_key = "set" /\ should_reconnect /\ wst = "ended"

\* C15: the connector process exits with a non-zero status when it ends
\* because of a missing credential at startup or of exhausted reconnect
\* attempts, and with status 0 when it ends because of an external
\* termination request.
C15_ExitStatus ==
    exit_status # None =>
        /\ api_key = "missing" => exit_status # 0
        /\ Exhausted => exit_status # 0
        /\ (api_key = "set" /\ ~should_reconnect) => exit_status = 0

(***************************************************************************)
(* Claims about concurrent access to the engine                            *)
(***************************************************************************)
\* thread w is between the append and the compaction of history k
Mutating(w, k) == wpc[w] = "in_evaluate" /\ wtick[w].sym = k

\* the prices update_spy is given
WrittenPrices == { t.p : t \in { u \in WorkerTicks : u.sym = "SPY" } }

\* C14: in every interleaving of the threads that feed the engine, no two of
\* them mutate the same SymbolHistory at the same time, and every read of
\* ReferencePrice by evaluate observes the initial undefined value or a
\* value written whole by some update_spy.
C14_NoConcurrentMutation ==
    /\ \A k \in Symbols :
          Cardinality({ w \in DOMAIN wpc : Mutating(w, k) }) <= 1
    /\ call.spy \in {None} \cup WrittenPrices
    /\ spy_price \in {None} \cup WrittenPrices

\* the main thread is inside evaluate_tick, its tick appended and the list
\* not yet compacted, after an update_spy and an earlier evaluate_tick
C14_Witness ==
    /\ Mutating("main", "NVDA")
    /\ spy_price = 1130
    /\ call.spy = 1130
    /\ Len(tick_history["NVDA"]) = 1
    /\ tick_history["AAPL"] # <<>>

====
